---- MODULE Spec2Model ----
(***************************************************************************)
(* A model of the director dashboard front end (ui/script.js and its       *)
(* legacy twin): the ambient logs (visionLog, spokenLog), the audio        *)
(* transcript panel (the children of #audio-context) and the interest      *)
(* score series (scoreLabels, scoreData, graphLog).                        *)
(*                                                                         *)
(* Socket events are delivered one at a time and each handler runs to      *)
(* completion or until it throws; what it assigned before a throw stays    *)
(* assigned.  One action models one handler.  A handler that returns at    *)
(* its first line because its panel element is not in the document leaves  *)
(* every variable, the history variables included, as it was.              *)
(***************************************************************************)
EXTENDS Integers, Sequences, FiniteSets, TLC

VARIABLES
    visionLog,     \* script.js:57   const visionLog = []
    spokenLog,     \* script.js:58   const spokenLog = []
    audioFeed,     \* the child <div>s of #audio-context, in document order
    scoreLabels,   \* script.js:6    window.scoreLabels
    scoreData,     \* script.js:7    window.scoreData
    graphLog,      \* script.js:5    window.graphLog
    interestChart, \* script.js:8    window.interestChart (TRUE: a chart exists)
    visionPushed,  \* history: every value pushed onto visionLog, in order
    spokenPushed,  \* history: every value pushed onto spokenLog, in order
    nScored,       \* history: number of event_scored events delivered
    nAudio,        \* history: number of audio_context events delivered
    nMalformed,    \* history: number of malformed events delivered
    twitchMessages,\* the child nodes of #twitch-messages, in document order
    namiReplies,   \* the child nodes of #nami-replies, in document order
    nChat,         \* history: number of lines appended to #twitch-messages
    nReply,        \* history: number of lines appended to #nami-replies
    logArray,      \* an array handed to updateAmbientLog with either isUpdate
    nCalls,        \* history: number of calls that reached the array
    nUpdates,      \* history: number of those calls made with isUpdate
    legacyLabels,  \* scoreLabels of the legacy front end
    legacyData,    \* scoreData of the legacy front end
    legacyGraphLog,\* graphLog of the legacy front end
    legacyChart,   \* whether the legacy front end's interestChart is set
    currentDebugDrawer, \* the drawer name, or Null
    drawerOpen,    \* #debug-drawer has class open, the overlay class visible
    drawerContent, \* #debug-drawer-content: "empty", a drawer's fragment, "error"
    calls,         \* invocations of openDebugDrawer suspended at an await
    timers,        \* pending 200 ms timeouts, by drawer name
    refreshing,    \* drawers whose start...Refresh ran since the last stop
    nOpens,        \* history: number of openDebugDrawer calls
    closedSinceOpen, \* history: closeDebugDrawer ran and no openDebugDrawer call since
    race,          \* history: <<A, B>> while the last two calls overlapped, or <<>>
    contextLocked, \* let contextLocked
    pendingAiContext, \* let pendingAiContext
    contextInputValue, \* #context-input value
    suggestionText,\* #ai-suggestion-text textContent
    indicatorShown,\* #ai-suggestion-indicator is not hidden
    emitted,       \* the set_manual_context messages emitted, in order
    latestSuggestion, \* history: context of the last suggestion that carried one
    nSuggestions,  \* history: number of ai_context_suggestion events
    prevEv,        \* history: the event handled before ev
    ev             \* history: the event handled last, and what its handler did

vars == <<visionLog, spokenLog, audioFeed, scoreLabels, scoreData, graphLog,
          interestChart, visionPushed, spokenPushed, nScored, nAudio,
          nMalformed, twitchMessages, namiReplies, nChat, nReply,
          logArray, nCalls, nUpdates,
          legacyLabels, legacyData, legacyGraphLog, legacyChart,
          currentDebugDrawer, drawerOpen, drawerContent, calls, timers,
          refreshing, nOpens, closedSinceOpen, race,
          contextLocked, pendingAiContext, contextInputValue, suggestionText,
          indicatorShown, emitted, latestSuggestion, nSuggestions,
          prevEv, ev>>

ambientVars == <<visionLog, spokenLog, visionPushed, spokenPushed>>
audioVars   == <<audioFeed, nAudio>>
scoreVars   == <<scoreLabels, scoreData, graphLog, interestChart, nScored>>
chatVars    == <<twitchMessages, namiReplies, nChat, nReply>>

\* what the handlers of the context and score events leave alone
updateVars  == <<logArray, nCalls, nUpdates>>
legacyVars  == <<legacyLabels, legacyData, legacyGraphLog, legacyChart>>
drawerVars  == <<currentDebugDrawer, drawerOpen, drawerContent, calls, timers,
                 refreshing, nOpens, closedSinceOpen, race>>
lockVars    == <<contextLocked, pendingAiContext, contextInputValue,
                 suggestionText, indicatorShown, emitted, latestSuggestion,
                 nSuggestions>>
restVars    == <<chatVars, updateVars, legacyVars, drawerVars, lockVars>>

----------------------------------------------------------------------------
(* Program constants *)

MAX_LOG_LINES == 100
MAX_PANEL_LINES == 20
CHART_HISTORY_SIZE == 50
GRAPH_LOG_SIZE == 10

(* Bounds of the model *)

\* events delivered beyond the capacity of the feed under test
Slack == 2
\* malformed events (a required field missing) delivered in one run
MaxMalformed == 1
\* audio_context events delivered in one run of SpecAudio
MaxAudioEvents == 4

MaxAmbientEvents == MAX_PANEL_LINES + Slack
MaxBurst         == MAX_PANEL_LINES + Slack
MaxScored        == CHART_HISTORY_SIZE + Slack
MaxChat          == MAX_LOG_LINES + Slack
MaxUpdates       == 2
MaxOpens         == 3
MaxSuggestions   == 3
MaxEmitted       == 3
MaxCalls         == MAX_PANEL_LINES + Slack + MaxUpdates

----------------------------------------------------------------------------
(* JavaScript values carried by events.  A field that is missing from the  *)
(* payload reads as undefined.  Text(k) is the k-th distinct display text. *)

Undefined == [tag |-> "undefined", n |-> 0, s |-> ""]
Text(k)   == [tag |-> "string", n |-> k, s |-> ""]
Str(x)    == [tag |-> "string", n |-> 0, s |-> x]
NullValue == [tag |-> "null", n |-> 0, s |-> ""]

\* if (v) ...: undefined and the empty string are falsy
Truthy(v) == v.tag = "string" /\ (v.s # "" \/ v.n # 0)

\* `${v}`: undefined formats as the text "undefined"
TemplateString(v) == IF v.tag = "undefined" THEN "undefined" ELSE v.s

\* el.textContent = v: the attribute is a nullable DOMString, undefined
\* and null both store the empty string
TextContent(v) == IF v.tag = "undefined" THEN Str("") ELSE v

NoEvent == [kind |-> "none", session_id |-> Undefined, is_partial |-> FALSE,
            context |-> Undefined, score |-> 0, hasScore |-> FALSE,
            hasText |-> FALSE, at |-> 0, threw |-> FALSE, isUpdate |-> FALSE,
            drawerName |-> "none", toggled |-> FALSE, locked |-> FALSE]

----------------------------------------------------------------------------
(* updateAmbientLog(elementId, logArray, newText, itemClass, isUpdate):    *)
(* the value of logArray when the function returns.  present is whether    *)
(* document.getElementById(elementId) found the panel.                     *)

UpdateAmbientLogPop(present, array, newText, isUpdate) ==
    IF ~present THEN array
    ELSE IF isUpdate /\ Len(array) > 0
         THEN [array EXCEPT ![Len(array)] = newText]
         ELSE LET pushed == Append(array, newText)
              IN  IF Len(pushed) > MAX_PANEL_LINES
                  THEN SubSeq(pushed, 1, Len(pushed) - 1)
                  ELSE pushed

UpdateAmbientLogUnshift(present, array, newText, isUpdate) ==
    IF ~present THEN array
    ELSE IF isUpdate /\ Len(array) > 0
         THEN [array EXCEPT ![Len(array)] = newText]
         ELSE LET pushed == <<newText>> \o array
              IN  IF Len(pushed) > MAX_PANEL_LINES
                  THEN Tail(pushed)
                  ELSE pushed

UpdateAmbientLogAlwaysPush(present, array, newText, isUpdate) ==
    IF ~present THEN array
    ELSE LET pushed == Append(array, newText)
         IN  IF Len(pushed) > MAX_PANEL_LINES
             THEN Tail(pushed)
             ELSE pushed

UpdateAmbientLog(present, array, newText, isUpdate) ==
    IF ~present THEN array
    ELSE IF isUpdate /\ Len(array) > 0
         THEN [array EXCEPT ![Len(array)] = newText]
         ELSE LET pushed == Append(array, newText)
              IN  IF Len(pushed) > MAX_PANEL_LINES
                  THEN Tail(pushed)
                  ELSE pushed

\* The payloads a context event may carry: the next distinct text, or no
\* context field at all (while the run's malformed budget lasts).
Contexts(k) == {Text(k)} \cup (IF nMalformed < MaxMalformed THEN {Undefined} ELSE {})

CountMalformed(malformed) ==
    nMalformed' = IF malformed THEN nMalformed + 1 ELSE nMalformed

\* updateAmbientLog(elementId, logArray, newText, itemClass, isUpdate) called
\* on an array with either value of isUpdate and the next distinct text; at
\* most MaxUpdates calls of a run ask for the replacement.
CallUpdateAmbientLog ==
    /\ nCalls < MaxCalls
    /\ \E present \in BOOLEAN, isUpdate \in BOOLEAN, c \in {Text(nCalls + 1)} :
          /\ isUpdate => nUpdates < MaxUpdates
          /\ IF present
             THEN /\ logArray' = UpdateAmbientLog(present, logArray, c, isUpdate)
                  /\ nCalls' = nCalls + 1
                  /\ nUpdates' = IF isUpdate THEN nUpdates + 1 ELSE nUpdates
                  /\ ev' = [NoEvent EXCEPT !.kind = "updateAmbientLog",
                                           !.context = c,
                                           !.isUpdate = isUpdate]
                  /\ prevEv' = ev
             ELSE /\ logArray' = UpdateAmbientLog(present, logArray, c, isUpdate)
                  /\ UNCHANGED <<nCalls, nUpdates, prevEv, ev>>
    /\ UNCHANGED <<ambientVars, audioVars, scoreVars, chatVars, legacyVars,
                   drawerVars, lockVars, nMalformed>>

\* socket.on('vision_context', d => updateAmbientLog('vision-context', visionLog, d.context))
VisionContext ==
    /\ Len(visionPushed) + Len(spokenPushed) < MaxAmbientEvents
    /\ \E present \in BOOLEAN, c \in Contexts(Len(visionPushed) + 1) :
          IF present
          THEN /\ visionLog' = UpdateAmbientLog(present, visionLog, c, FALSE)
               /\ visionPushed' = Append(visionPushed, c)
               /\ CountMalformed(c = Undefined)
               /\ ev' = [NoEvent EXCEPT !.kind = "vision_context", !.context = c]
               /\ prevEv' = ev
               /\ UNCHANGED <<spokenLog, spokenPushed, audioVars, scoreVars, restVars>>
          ELSE /\ visionLog' = UpdateAmbientLog(present, visionLog, c, FALSE)
               /\ UNCHANGED <<visionPushed, nMalformed, prevEv, ev>>
               /\ UNCHANGED <<spokenLog, spokenPushed, audioVars, scoreVars, restVars>>

\* socket.on('spoken_word_context', d => updateAmbientLog('spoken-word-context', spokenLog, d.context))
SpokenWordContext ==
    /\ Len(visionPushed) + Len(spokenPushed) < MaxAmbientEvents
    /\ \E present \in BOOLEAN, c \in Contexts(Len(spokenPushed) + 1) :
          IF present
          THEN /\ spokenLog' = UpdateAmbientLog(present, spokenLog, c, FALSE)
               /\ spokenPushed' = Append(spokenPushed, c)
               /\ CountMalformed(c = Undefined)
               /\ ev' = [NoEvent EXCEPT !.kind = "spoken_word_context", !.context = c]
               /\ prevEv' = ev
               /\ UNCHANGED <<visionLog, visionPushed, audioVars, scoreVars, restVars>>
          ELSE /\ spokenLog' = UpdateAmbientLog(present, spokenLog, c, FALSE)
               /\ UNCHANGED <<spokenPushed, nMalformed, prevEv, ev>>
               /\ UNCHANGED <<visionLog, visionPushed, audioVars, scoreVars, restVars>>

----------------------------------------------------------------------------
(* The interest score series.  A score is held in thousandths; the text of *)
(* an event is held as its length.  The k-th delivered event carries       *)
(* ScoreOf(k) and a text of TextLenOf(k) characters.                       *)

ScoreStream   == <<504, 1507, -253, 98>>
TextLenStream == <<5, 40, 30>>
ScoreOf(k)    == ScoreStream[((k - 1) % Len(ScoreStream)) + 1]
TextLenOf(k)  == TextLenStream[((k - 1) % Len(TextLenStream)) + 1]

\* Number.prototype.toFixed(2): the decimal string with two fraction digits
\* nearest to the number, held here as the number of hundredths it reads.
ToFixed2(m) == IF m >= 0 THEN (m + 5) \div 10 ELSE -((5 - m) \div 10)

\* text.substring(0, 30)
Substring30(len) == IF len > 30 THEN 30 ELSE len

\* `${score.toFixed(2)} - ${source}: ${text.substring(0,30)}...`
LogLine(score, len) == [score |-> ToFixed2(score), text |-> Substring30(len)]

\* window.initializeChart: returns early without the canvas or the Chart
\* library, otherwise replaces window.interestChart by a new chart.
InitializeChart ==
    /\ \E ready \in BOOLEAN :
          interestChart' = IF ready THEN TRUE ELSE interestChart
    /\ ev' = [NoEvent EXCEPT !.kind = "initializeChart"]
    /\ prevEv' = ev
    /\ UNCHANGED <<ambientVars, audioVars, scoreLabels, scoreData, graphLog,
                   nScored, nMalformed, restVars>>

\* window.scoreLabels.push(""); window.scoreData.push(data.score.toFixed(2));
\* if (window.scoreData.length > CHART_HISTORY_SIZE) { both shift() }
\* The value of <<scoreLabels, scoreData>> when the statements are done or
\* data.score.toFixed has thrown (data.score undefined).
RecordScoreNoShiftLabels(labels, data, hasScore, score) ==
    LET labels1 == Append(labels, "")
    IN  IF ~hasScore THEN <<labels1, data>>
        ELSE LET data1 == Append(data, ToFixed2(score))
             IN  IF Len(data1) > CHART_HISTORY_SIZE
                 THEN <<labels1, Tail(data1)>>
                 ELSE <<labels1, data1>>

RecordScore(labels, data, hasScore, score) ==
    LET labels1 == Append(labels, "")
    IN  IF ~hasScore THEN <<labels1, data>>
        ELSE LET data1 == Append(data, ToFixed2(score))
             IN  IF Len(data1) > CHART_HISTORY_SIZE
                 THEN <<Tail(labels1), Tail(data1)>>
                 ELSE <<labels1, data1>>

\* window.graphLog.push(logLine); if (window.graphLog.length > 10) shift()
\* Not reached when data.score.toFixed or data.text.substring has thrown.
PushGraphLog(log, hasScore, hasText, line) ==
    IF ~hasScore \/ ~hasText THEN log
    ELSE LET log1 == Append(log, line)
         IN  IF Len(log1) > GRAPH_LOG_SIZE THEN Tail(log1) ELSE log1

\* socket.on('event_scored', (data) => { ... })
EventScored ==
    /\ nScored < MaxScored
    /\ \E hasScore \in BOOLEAN, hasText \in BOOLEAN :
          LET k   == nScored + 1
              rec == RecordScore(scoreLabels, scoreData, hasScore, ScoreOf(k))
          IN  /\ (hasScore /\ hasText) \/ nMalformed < MaxMalformed
              /\ scoreLabels' = rec[1]
              /\ scoreData' = rec[2]
              /\ graphLog' = PushGraphLog(graphLog, hasScore, hasText,
                                          LogLine(ScoreOf(k), TextLenOf(k)))
              /\ CountMalformed(~(hasScore /\ hasText))
              /\ ev' = [NoEvent EXCEPT !.kind = "event_scored",
                                       !.score = ScoreOf(k),
                                       !.hasScore = hasScore,
                                       !.hasText = hasText,
                                       !.threw = ~(hasScore /\ hasText)]
    /\ nScored' = nScored + 1
    /\ prevEv' = ev
    /\ UNCHANGED <<ambientVars, audioVars, interestChart, restVars>>

----------------------------------------------------------------------------
(* The audio transcript panel.  An entry of audioFeed is one child <div>   *)
(* of #audio-context: whether it has an id attribute, the id without its   *)
(* "session-" prefix, its textContent, and whether it has the live-pulse   *)
(* class.  The audioLog array is declared but never used.                  *)

SessionIds == {Undefined, Str("s1"), Str("s2"), Str("undefined")}

ExistingItemLastOnly(feed, session_id) ==
    IF /\ Len(feed) > 0
       /\ feed[Len(feed)].hasId
       /\ feed[Len(feed)].id = TemplateString(session_id)
    THEN Len(feed)
    ELSE 0

\* document.getElementById(`session-${d.session_id}`): the position of the
\* first element, in document order, with that id; 0 for null.
ExistingItem(feed, session_id) ==
    LET key   == TemplateString(session_id)
        hit(i) == feed[i].hasId /\ feed[i].id = key
    IN  IF \E i \in 1..Len(feed) : hit(i)
        THEN CHOOSE i \in 1..Len(feed) : hit(i) /\ \A j \in 1..(i - 1) : ~hit(j)
        ELSE 0

NewItemNoId(session_id, context) ==
    [hasId |-> FALSE, id |-> "", text |-> TextContent(context), pulse |-> FALSE]

\* the <div> the else branch creates
NewItem(session_id, context) ==
    [hasId |-> Truthy(session_id),
     id    |-> IF Truthy(session_id) THEN TemplateString(session_id) ELSE "",
     text  |-> TextContent(context),
     pulse |-> FALSE]

AudioHandlerReplaceFinal(feed, session_id, is_partial, context) ==
    LET existingItem == ExistingItem(feed, session_id)
    IN  IF existingItem # 0
        THEN [feed EXCEPT ![existingItem].text = TextContent(context),
                          ![existingItem].pulse = TRUE]
        ELSE Append(feed, NewItem(session_id, context))

\* The children of #audio-context when the handler returns.
AudioHandler(feed, session_id, is_partial, context) ==
    LET existingItem == ExistingItem(feed, session_id)
    IN  IF is_partial /\ existingItem # 0
        THEN [feed EXCEPT ![existingItem].text = TextContent(context),
                          ![existingItem].pulse = TRUE]
        ELSE Append(feed, NewItem(session_id, context))

\* The position the handler wrote: the replaced entry, or the appended one.
WrittenAt(feed, session_id, is_partial) ==
    IF is_partial /\ ExistingItem(feed, session_id) # 0
    THEN ExistingItem(feed, session_id)
    ELSE Len(feed) + 1

\* socket.on('audio_context', d => { ... }) on one payload; present is
\* whether document.getElementById('audio-context') found the container.
AudioContext(present, session_id, is_partial, context) ==
    IF present
    THEN /\ audioFeed' = AudioHandler(audioFeed, session_id, is_partial, context)
         /\ nAudio' = nAudio + 1
         /\ CountMalformed(context = Undefined)
         /\ ev' = [NoEvent EXCEPT !.kind = "audio_context",
                                  !.session_id = session_id,
                                  !.is_partial = is_partial,
                                  !.context = context,
                                  !.at = WrittenAt(audioFeed, session_id, is_partial)]
         /\ prevEv' = ev
         /\ UNCHANGED <<ambientVars, scoreVars, restVars>>
    ELSE UNCHANGED vars

\* an audio_context event with any session id, partial or final
AudioContextEvent ==
    /\ nAudio < MaxAudioEvents
    /\ \E present \in BOOLEAN, sid \in SessionIds, p \in BOOLEAN,
          c \in Contexts(nAudio + 1) :
          AudioContext(present, sid, p, c)

\* a burst of audio_context events that carry no session id
AudioBurst ==
    /\ nAudio < MaxBurst
    /\ \E present \in BOOLEAN, p \in BOOLEAN, c \in Contexts(nAudio + 1) :
          AudioContext(present, Undefined, p, c)

----------------------------------------------------------------------------
(* The chat log (#twitch-messages) and the reply log (#nami-replies).  A   *)
(* child node is an element (a log line, numbered by its arrival in the    *)
(* panel) or the white-space text node a template that starts with a line  *)
(* break puts before its <div>.                                            *)

WhiteSpace == [element |-> FALSE, n |-> 0]
LogLineDiv(k) == [element |-> TRUE, n |-> k]

\* element.children: the child nodes that are elements
Children(nodes) == SelectSeq(nodes, LAMBDA x : x.element)

\* while (element.children.length > MAX_LOG_LINES) element.removeChild(element.firstChild)
RECURSIVE RemoveExcess(_)
RemoveExcess(nodes) ==
    IF Len(Children(nodes)) > MAX_LOG_LINES
    THEN RemoveExcess(Tail(nodes))
    ELSE nodes

AppendLogRemoveOnce(present, nodes, html) ==
    IF ~present THEN nodes
    ELSE LET inserted == nodes \o html
         IN  IF Len(Children(inserted)) > MAX_LOG_LINES
             THEN Tail(inserted)
             ELSE inserted

\* appendLog(element, html): the child nodes of element when it returns;
\* present is whether document.getElementById found the panel.
AppendLog(present, nodes, html) ==
    IF ~present THEN nodes
    ELSE RemoveExcess(nodes \o html)

\* `\n        <div class="log-line ...">...</div>` (html, chatHTML)
ChatHTML(k) == <<WhiteSpace, LogLineDiv(k)>>
\* `<div class="log-line nami-reply ...">...</div>` (namiHTML)
NamiHTML(k) == <<LogLineDiv(k)>>

\* socket.on('twitch_message', (data) => { ... })
TwitchMessage ==
    /\ nChat < MaxChat
    /\ \E present \in BOOLEAN :
          IF present
          THEN /\ twitchMessages' = AppendLog(present, twitchMessages, ChatHTML(nChat + 1))
               /\ nChat' = nChat + 1
               /\ ev' = [NoEvent EXCEPT !.kind = "twitch_message"]
               /\ prevEv' = ev
               /\ UNCHANGED <<namiReplies, nReply, nMalformed>>
          ELSE /\ twitchMessages' = AppendLog(present, twitchMessages, ChatHTML(nChat + 1))
               /\ UNCHANGED <<namiReplies, nChat, nReply, nMalformed, prevEv, ev>>
    /\ UNCHANGED <<ambientVars, audioVars, scoreVars, updateVars, legacyVars,
                   drawerVars, lockVars>>

\* socket.on('bot_reply', (data) => { ... }): one line to #nami-replies,
\* then one to #twitch-messages
BotReply ==
    /\ nChat < MaxChat
    /\ nReply < MaxChat
    /\ \E replies \in BOOLEAN, chat \in BOOLEAN :
          /\ namiReplies' = AppendLog(replies, namiReplies, NamiHTML(nReply + 1))
          /\ twitchMessages' = AppendLog(chat, twitchMessages, ChatHTML(nChat + 1))
          /\ nReply' = IF replies THEN nReply + 1 ELSE nReply
          /\ nChat' = IF chat THEN nChat + 1 ELSE nChat
          /\ IF replies \/ chat
             THEN /\ ev' = [NoEvent EXCEPT !.kind = "bot_reply"]
                  /\ prevEv' = ev
             ELSE UNCHANGED <<prevEv, ev>>
    /\ UNCHANGED <<ambientVars, audioVars, scoreVars, updateVars, legacyVars,
                   drawerVars, lockVars, nMalformed>>

----------------------------------------------------------------------------
(* The legacy front end (src/unnamed/part_000) beside ui/script.js: both   *)
(* pages are connected to one server and receive the same events.          *)

\* if (interestChart) { scoreLabels.push(""); scoreData.push(data.score.toFixed(2));
\*                      if (scoreData.length > CHART_HISTORY_SIZE) { both shift() } ... }
LegacyRecordScore(chart, labels, data, hasScore, score) ==
    IF ~chart THEN <<labels, data>>
    ELSE LET labels1 == Append(labels, "")
         IN  IF ~hasScore THEN <<labels1, data>>
             ELSE LET data1 == Append(data, ToFixed2(score))
                  IN  IF Len(data1) > CHART_HISTORY_SIZE
                      THEN <<Tail(labels1), Tail(data1)>>
                      ELSE <<labels1, data1>>

\* graphLog.push(logLine); if (graphLog.length > 10) graphLog.shift()
\* Not reached when data.score.toFixed or data.text.substring has thrown.
LegacyPushGraphLog(log, hasScore, hasText, line) ==
    IF ~hasScore \/ ~hasText THEN log
    ELSE LET log1 == Append(log, line)
         IN  IF Len(log1) > GRAPH_LOG_SIZE THEN Tail(log1) ELSE log1

\* one event_scored event delivered to the handlers of both front ends
TwinEventScored ==
    /\ nScored < MaxScored
    /\ \E hasScore \in BOOLEAN, hasText \in BOOLEAN :
          LET k    == nScored + 1
              line == LogLine(ScoreOf(k), TextLenOf(k))
              rec  == RecordScore(scoreLabels, scoreData, hasScore, ScoreOf(k))
              lrec == LegacyRecordScore(legacyChart, legacyLabels, legacyData,
                                        hasScore, ScoreOf(k))
          IN  /\ (hasScore /\ hasText) \/ nMalformed < MaxMalformed
              /\ scoreLabels' = rec[1]
              /\ scoreData' = rec[2]
              /\ graphLog' = PushGraphLog(graphLog, hasScore, hasText, line)
              /\ legacyLabels' = lrec[1]
              /\ legacyData' = lrec[2]
              /\ legacyGraphLog' = LegacyPushGraphLog(legacyGraphLog, hasScore,
                                                      hasText, line)
              /\ CountMalformed(~(hasScore /\ hasText))
              /\ ev' = [NoEvent EXCEPT !.kind = "event_scored",
                                       !.score = ScoreOf(k),
                                       !.hasScore = hasScore,
                                       !.hasText = hasText,
                                       !.threw = ~(hasScore /\ hasText)]
    /\ nScored' = nScored + 1
    /\ prevEv' = ev
    /\ UNCHANGED <<ambientVars, audioVars, interestChart, legacyChart,
                   chatVars, updateVars, drawerVars, lockVars>>

\* chart initialisation in both front ends (window.initializeChart of
\* ui/script.js, initializeChart of the legacy script): without the Chart
\* library or the canvas neither sets its interestChart.
TwinInitializeChart ==
    /\ \E ready \in BOOLEAN :
          /\ interestChart' = IF ready THEN TRUE ELSE interestChart
          /\ legacyChart' = IF ready THEN TRUE ELSE legacyChart
    /\ ev' = [NoEvent EXCEPT !.kind = "initializeChart"]
    /\ prevEv' = ev
    /\ UNCHANGED <<ambientVars, audioVars, scoreLabels, scoreData, graphLog,
                   nScored, nMalformed, legacyLabels, legacyData,
                   legacyGraphLog, chatVars, updateVars, drawerVars,
                   lockVars>>

----------------------------------------------------------------------------
(* The debug drawer controller (ui/drawer_controller.js, lines 1-131).     *)
(* openDebugDrawer is an async function: a step of the model is the code   *)
(* it runs between two awaits.  A call is held in calls while it waits for *)
(* fetch (pc "fetch") or for response.text() (pc "text").                  *)

Null == "null"

\* the drawers of the dashboard
Drawers == {"thread_stats", "prompt_debug", "interest_graph"}

\* the drawers with a refresh life cycle: stopThreadStatsRefresh,
\* stopPromptDebugRefresh, stopRunTestsRefresh
RefreshDrawers == {"thread_stats", "prompt_debug", "run_tests"}

\* typeof window[refreshFnName] === 'function'
HasRefresh(drawerName) == drawerName \in RefreshDrawers

\* stopAllDrawerRefreshes(): the refreshes still running when it returns
StopAllDrawerRefreshes(running) == running \ RefreshDrawers

RemoveAt(seq, i) == SubSeq(seq, 1, i - 1) \o SubSeq(seq, i + 1, Len(seq))

TogglesNever(current, drawerName) == FALSE

\* if (currentDebugDrawer === drawerName) { closeDebugDrawer(); return; }
Toggles(current, drawerName) == current = drawerName

\* the call openDebugDrawer(B) is made while the only call in flight asks for
\* another drawer and still waits for its fetch
Overlaps(drawerName) ==
    /\ Len(calls) = 1
    /\ calls[1].pc = "fetch"
    /\ calls[1].drawerName # drawerName

feedVars == <<ambientVars, audioVars, scoreVars, chatVars, updateVars,
              legacyVars, nMalformed, lockVars>>

\* openDebugDrawer(drawerName) up to its first await; present is whether the
\* three drawer elements were found.
OpenDebugDrawer ==
    /\ nOpens < MaxOpens
    /\ \E drawerName \in Drawers, present \in BOOLEAN :
          IF ~present THEN UNCHANGED drawerVars /\ UNCHANGED <<prevEv, ev>>
          ELSE /\ nOpens' = nOpens + 1
               /\ refreshing' = StopAllDrawerRefreshes(refreshing)
               /\ IF Toggles(currentDebugDrawer, drawerName)
                  THEN /\ drawerOpen' = FALSE
                       /\ currentDebugDrawer' = Null
                       /\ closedSinceOpen' = TRUE
                       /\ race' = <<>>
                       /\ UNCHANGED calls
                  ELSE /\ calls' = Append(calls, [drawerName |-> drawerName, pc |-> "fetch"])
                       /\ closedSinceOpen' = FALSE
                       /\ race' = IF Overlaps(drawerName)
                                  THEN <<calls[1].drawerName, drawerName>>
                                  ELSE <<>>
                       /\ UNCHANGED <<drawerOpen, currentDebugDrawer>>
               /\ ev' = [NoEvent EXCEPT !.kind = "openDebugDrawer",
                                        !.drawerName = drawerName,
                                        !.toggled = Toggles(currentDebugDrawer, drawerName)]
               /\ prevEv' = ev
               /\ UNCHANGED <<drawerContent, timers>>
    /\ UNCHANGED feedVars

\* fetch settles: a rejected fetch or a response that is not ok ends the call
\* in the catch block, otherwise the call awaits response.text().
FetchSettles ==
    /\ \E i \in 1..Len(calls), ok \in BOOLEAN :
          /\ calls[i].pc = "fetch"
          /\ IF ok
             THEN /\ calls' = [calls EXCEPT ![i].pc = "text"]
                  /\ UNCHANGED <<drawerContent, race>>
             ELSE /\ calls' = RemoveAt(calls, i)
                  /\ drawerContent' = "error"
                  /\ race' = <<>>
          /\ ev' = [NoEvent EXCEPT !.kind = IF ok THEN "response" ELSE "fetchFailed",
                                   !.drawerName = calls[i].drawerName]
    /\ prevEv' = ev
    /\ UNCHANGED <<currentDebugDrawer, drawerOpen, timers, refreshing, nOpens,
                   closedSinceOpen>>
    /\ UNCHANGED feedVars

\* response.text() resolves: the fragment is put in the content panel, the
\* drawer is opened and the 200 ms timeout is set.
LoadCompletes ==
    /\ \E i \in 1..Len(calls) :
          /\ calls[i].pc = "text"
          /\ drawerContent' = calls[i].drawerName
          /\ drawerOpen' = TRUE
          /\ currentDebugDrawer' = calls[i].drawerName
          /\ timers' = Append(timers, calls[i].drawerName)
          /\ calls' = RemoveAt(calls, i)
          /\ ev' = [NoEvent EXCEPT !.kind = "loaded",
                                   !.drawerName = calls[i].drawerName]
    /\ prevEv' = ev
    /\ UNCHANGED <<refreshing, nOpens, closedSinceOpen, race>>
    /\ UNCHANGED feedVars

\* the callback of setTimeout(..., 200)
TimeoutFires ==
    /\ \E i \in 1..Len(timers) :
          /\ refreshing' = IF HasRefresh(timers[i])
                           THEN refreshing \cup {timers[i]}
                           ELSE refreshing
          /\ timers' = RemoveAt(timers, i)
          /\ ev' = [NoEvent EXCEPT !.kind = "timeout", !.drawerName = timers[i]]
    /\ prevEv' = ev
    /\ UNCHANGED <<currentDebugDrawer, drawerOpen, drawerContent, calls, nOpens,
                   closedSinceOpen, race>>
    /\ UNCHANGED feedVars

\* closeDebugDrawer(), from a click on the visible overlay or from Escape
\* while currentDebugDrawer is set
CloseDebugDrawer ==
    /\ drawerOpen \/ currentDebugDrawer # Null
    /\ drawerOpen' = FALSE
    /\ refreshing' = StopAllDrawerRefreshes(refreshing)
    /\ currentDebugDrawer' = Null
    /\ closedSinceOpen' = TRUE
    /\ race' = <<>>
    /\ ev' = [NoEvent EXCEPT !.kind = "closeDebugDrawer"]
    /\ prevEv' = ev
    /\ UNCHANGED <<drawerContent, calls, timers, nOpens>>
    /\ UNCHANGED feedVars

----------------------------------------------------------------------------
(* The context lock and the AI context suggestion (ui/script.js 52-54,     *)
(* 112-179, 210-236, 361-364).  The elements the page script looks up once *)
(* at load (#context-input, #ai-suggestion-indicator, #ai-suggestion-text, *)
(* #accept-ai-suggestion) are those of the dashboard page.                 *)

otherVars == <<ambientVars, audioVars, scoreVars, chatVars, updateVars,
               legacyVars, drawerVars>>

\* the context a suggestion may carry: the next distinct text, or (while the
\* run's malformed budget lasts) none or the empty string
SuggestedContexts(k) ==
    {Text(k)} \cup (IF nMalformed < MaxMalformed THEN {Undefined, Str("")} ELSE {})

AutoAppliesAlways(context, locked) == Truthy(context)

\* if (data.context && !contextLocked)
AutoApplies(context, locked) == Truthy(context) /\ ~locked

\* else if (data.context && contextLocked)
Deferred(context, locked) == Truthy(context) /\ locked

\* socket.on('ai_context_suggestion', (data) => { ... })
AiContextSuggestion ==
    /\ nSuggestions < MaxSuggestions
    /\ \E c \in SuggestedContexts(nSuggestions + 1) :
          /\ IF AutoApplies(c, contextLocked)
             THEN /\ contextInputValue' = c
                  /\ UNCHANGED <<pendingAiContext, suggestionText, indicatorShown>>
             ELSE IF Deferred(c, contextLocked)
             THEN /\ pendingAiContext' = c
                  /\ suggestionText' = TextContent(c)
                  /\ indicatorShown' = TRUE
                  /\ UNCHANGED contextInputValue
             ELSE UNCHANGED <<contextInputValue, pendingAiContext, suggestionText,
                              indicatorShown>>
          /\ latestSuggestion' = IF Truthy(c) THEN c ELSE latestSuggestion
          /\ CountMalformed(~Truthy(c))
          /\ ev' = [NoEvent EXCEPT !.kind = "ai_context_suggestion",
                                   !.context = c,
                                   !.locked = contextLocked]
    /\ nSuggestions' = nSuggestions + 1
    /\ prevEv' = ev
    /\ UNCHANGED <<contextLocked, emitted>>
    /\ UNCHANGED otherVars

\* window.toggleContextLock
ToggleContextLock ==
    /\ contextLocked' = ~contextLocked
    /\ ev' = [NoEvent EXCEPT !.kind = "toggleContextLock"]
    /\ prevEv' = ev
    /\ UNCHANGED <<pendingAiContext, contextInputValue, suggestionText,
                   indicatorShown, emitted, latestSuggestion, nSuggestions,
                   nMalformed>>
    /\ UNCHANGED otherVars

\* socket.on('director_state'), 7. Lock states: a payload with
\* context_locked sets contextLocked (the rest of the handler writes panels
\* that hold no state of the lock).
DirectorState ==
    /\ \E context_locked \in BOOLEAN :
          /\ contextLocked' = context_locked
          /\ ev' = [NoEvent EXCEPT !.kind = "director_state",
                                   !.locked = context_locked]
    /\ prevEv' = ev
    /\ UNCHANGED <<pendingAiContext, contextInputValue, suggestionText,
                   indicatorShown, emitted, latestSuggestion, nSuggestions,
                   nMalformed>>
    /\ UNCHANGED otherVars

AcceptKeepsPending(pending, input, shown, out) ==
    IF Truthy(pending)
    THEN [pendingAiContext |-> pending, contextInputValue |-> pending,
          indicatorShown |-> FALSE, emitted |-> Append(out, pending)]
    ELSE [pendingAiContext |-> pending, contextInputValue |-> input,
          indicatorShown |-> shown, emitted |-> out]

\* the click handler of #accept-ai-suggestion, with updateManualContext
Accept(pending, input, shown, out) ==
    IF Truthy(pending)
    THEN [pendingAiContext |-> NullValue, contextInputValue |-> pending,
          indicatorShown |-> FALSE, emitted |-> Append(out, pending)]
    ELSE [pendingAiContext |-> pending, contextInputValue |-> input,
          indicatorShown |-> shown, emitted |-> out]

AcceptAiSuggestion ==
    /\ Len(emitted) < MaxEmitted
    /\ LET after == Accept(pendingAiContext, contextInputValue, indicatorShown,
                           emitted)
       IN  /\ pendingAiContext' = after.pendingAiContext
           /\ contextInputValue' = after.contextInputValue
           /\ indicatorShown' = after.indicatorShown
           /\ emitted' = after.emitted
    /\ ev' = [NoEvent EXCEPT !.kind = "acceptAiSuggestion"]
    /\ prevEv' = ev
    /\ UNCHANGED <<contextLocked, suggestionText, latestSuggestion, nSuggestions,
                   nMalformed>>
    /\ UNCHANGED otherVars

\* click on #context-submit, or Enter in #context-input:
\* updateManualContext(input.value)
SubmitContext ==
    /\ Len(emitted) < MaxEmitted
    /\ emitted' = Append(emitted, contextInputValue)
    /\ ev' = [NoEvent EXCEPT !.kind = "submitContext"]
    /\ prevEv' = ev
    /\ UNCHANGED <<contextLocked, pendingAiContext, contextInputValue,
                   suggestionText, indicatorShown, latestSuggestion,
                   nSuggestions, nMalformed>>
    /\ UNCHANGED otherVars

----------------------------------------------------------------------------
Init ==
    /\ visionLog = <<>>
    /\ spokenLog = <<>>
    /\ audioFeed = <<>>
    /\ scoreLabels = <<>>
    /\ scoreData = <<>>
    /\ graphLog = <<>>
    /\ interestChart = FALSE
    /\ visionPushed = <<>>
    /\ spokenPushed = <<>>
    /\ nScored = 0
    /\ nAudio = 0
    /\ nMalformed = 0
    /\ twitchMessages = <<>>
    /\ namiReplies = <<>>
    /\ nChat = 0
    /\ nReply = 0
    /\ logArray = <<>>
    /\ nCalls = 0
    /\ nUpdates = 0
    /\ legacyLabels = <<>>
    /\ legacyData = <<>>
    /\ legacyGraphLog = <<>>
    /\ legacyChart = FALSE
    /\ currentDebugDrawer = Null
    /\ drawerOpen = FALSE
    /\ drawerContent = "empty"
    /\ calls = <<>>
    /\ timers = <<>>
    /\ refreshing = {}
    /\ nOpens = 0
    /\ closedSinceOpen = FALSE
    /\ race = <<>>
    /\ contextLocked = FALSE
    /\ pendingAiContext = NullValue
    /\ contextInputValue = Str("")
    /\ suggestionText = Str("")
    /\ indicatorShown = FALSE
    /\ emitted = <<>>
    /\ latestSuggestion = NullValue
    /\ nSuggestions = 0
    /\ prevEv = NoEvent
    /\ ev = NoEvent

NextAmbient == VisionContext \/ SpokenWordContext

SpecAmbient == Init /\ [][NextAmbient]_vars

NextScore == EventScored \/ InitializeChart

SpecScore == Init /\ [][NextScore]_vars

NextAudio == AudioContextEvent

SpecAudio == Init /\ [][NextAudio]_vars

NextAudioBurst == AudioBurst

NextUpdate == CallUpdateAmbientLog

SpecUpdate == Init /\ [][NextUpdate]_vars

NextTwin == TwinEventScored \/ TwinInitializeChart

SpecTwin == Init /\ [][NextTwin]_vars

NextDrawer ==
    \/ OpenDebugDrawer
    \/ FetchSettles
    \/ LoadCompletes
    \/ TimeoutFires
    \/ CloseDebugDrawer

SpecDrawer == Init /\ [][NextDrawer]_vars

NextLock ==
    \/ AiContextSuggestion
    \/ ToggleContextLock
    \/ DirectorState
    \/ AcceptAiSuggestion
    \/ SubmitContext

SpecLock == Init /\ [][NextLock]_vars

NextChat == TwitchMessage \/ BotReply

SpecChat == Init /\ [][NextChat]_vars

SpecAudioBurst == Init /\ [][NextAudioBurst]_vars

Next ==
    \/ VisionContext
    \/ SpokenWordContext
    \/ AudioContextEvent
    \/ AudioBurst
    \/ EventScored
    \/ InitializeChart
    \/ TwitchMessage
    \/ BotReply
    \/ CallUpdateAmbientLog
    \/ TwinEventScored
    \/ TwinInitializeChart
    \/ OpenDebugDrawer
    \/ FetchSettles
    \/ LoadCompletes
    \/ TimeoutFires
    \/ CloseDebugDrawer
    \/ AiContextSuggestion
    \/ ToggleContextLock
    \/ DirectorState
    \/ AcceptAiSuggestion
    \/ SubmitContext

Spec == Init /\ [][Next]_vars

----------------------------------------------------------------------------
(* Properties *)

IsAudio(e) == e.kind = "audio_context"

\* the positions of the entries of feed that carry session id sid
Carriers(feed, sid) ==
    {i \in 1..Len(feed) : feed[i].hasId /\ sid.tag = "string" /\ feed[i].id = sid.s}

Lowest(S) == CHOOSE i \in S : \A j \in S : i <= j

\* the entries of a feed of length n that differ between f and g
Changed(f, g, n) == {i \in 1..n : f[i] # g[i]}

\* C1: after every vision_context or spoken_word_context event each
\* ambient log holds at most MAX_PANEL_LINES entries, and a push onto a full
\* log removes its oldest entry.
AmbientLogsBounded ==
    [][ /\ Len(visionLog') <= MAX_PANEL_LINES
        /\ Len(spokenLog') <= MAX_PANEL_LINES
        /\ (/\ ev'.kind = "vision_context"
            /\ Len(visionLog) = MAX_PANEL_LINES)
              => visionLog' = Append(Tail(visionLog), ev'.context)
        /\ (/\ ev'.kind = "spoken_word_context"
            /\ Len(spokenLog) = MAX_PANEL_LINES)
              => spokenLog' = Append(Tail(spokenLog), ev'.context) ]_vars

AmbientLogEvicted ==
    /\ ev.kind = "vision_context"
    /\ Len(visionPushed) > MAX_PANEL_LINES
    /\ Len(visionLog) = MAX_PANEL_LINES
    /\ visionLog[MAX_PANEL_LINES] = ev.context

\* C2: after N > MAX_PANEL_LINES plain appends a log holds exactly
\* MAX_PANEL_LINES entries, the last ones appended, in their order.
StrictFifo ==
    \A f \in {<<visionLog, visionPushed>>, <<spokenLog, spokenPushed>>} :
        LET N == Len(f[2])
        IN  N > MAX_PANEL_LINES
              => /\ Len(f[1]) = MAX_PANEL_LINES
                 /\ f[1] = SubSeq(f[2], N - MAX_PANEL_LINES + 1, N)

StrictFifoReached ==
    /\ Len(spokenPushed) = MAX_PANEL_LINES + 2
    /\ spokenLog[1] = spokenPushed[3]
    /\ spokenLog[1] # spokenPushed[1]

\* C3: the label sequence and the score sequence have equal length.
ScoreSeriesInSync == Len(scoreLabels) = Len(scoreData)

Malformed(e) ==
    \/ e.kind = "event_scored" /\ ~e.hasScore
    \/ /\ e.kind \in {"vision_context", "spoken_word_context", "audio_context"}
       /\ e.context = Undefined

\* C4: a malformed event (no score, or no context) leaves scoreLabels,
\* scoreData, graphLog and every log as they were, and the feed invariants
\* hold afterwards.
MalformedRejected ==
    [][ Malformed(ev')
          => /\ UNCHANGED <<scoreLabels, scoreData, graphLog>>
             /\ UNCHANGED <<visionLog, spokenLog, audioFeed>>
             /\ Len(scoreLabels') = Len(scoreData')
             /\ Len(visionLog') <= MAX_PANEL_LINES
             /\ Len(spokenLog') <= MAX_PANEL_LINES ]_vars

\* C5: the audio transcript feed never holds more than MAX_PANEL_LINES
\* entries.
AudioFeedBounded == Len(audioFeed) <= MAX_PANEL_LINES

\* The last entry was written by a partial update (ev) with a session id,
\* and the next event (ev') is the final transcript of the same session.
FinalAfterPartial ==
    /\ IsAudio(ev) /\ ev.is_partial /\ Truthy(ev.session_id)
    /\ ev.at = Len(audioFeed)
    /\ IsAudio(ev') /\ ~ev'.is_partial /\ ev'.session_id = ev.session_id

DiffersFromLast(feed, sid) ==
    Len(feed) = 0 \/ Len(feed) \notin Carriers(feed, sid)

PartialOverwritesLast ==
    [][ (/\ IsAudio(ev') /\ ev'.is_partial /\ Truthy(ev'.session_id)
         /\ ~DiffersFromLast(audioFeed, ev'.session_id))
          => /\ Len(audioFeed') = Len(audioFeed)
             /\ audioFeed'[Len(audioFeed)].text = TextContent(ev'.context) ]_vars

\* C9: an event that carries no session id appends a new entry and replaces
\* none, whatever is_partial says and whatever the feed holds.
NoSessionIdAppends ==
    [][ (IsAudio(ev') /\ ev'.session_id = Undefined)
          => /\ Len(audioFeed') = Len(audioFeed) + 1
             /\ SubSeq(audioFeed', 1, Len(audioFeed)) = audioFeed ]_vars

\* C10: an event whose session id no entry of the feed carries (the feed may
\* be empty) appends a new entry under that id and changes no other entry.
UnseenSessionIdAppends ==
    [][ (/\ IsAudio(ev') /\ Truthy(ev'.session_id)
         /\ Carriers(audioFeed, ev'.session_id) = {})
          => /\ Len(audioFeed') = Len(audioFeed) + 1
             /\ SubSeq(audioFeed', 1, Len(audioFeed)) = audioFeed
             /\ audioFeed'[Len(audioFeed')].hasId
             /\ audioFeed'[Len(audioFeed')].id = ev'.session_id.s
             /\ audioFeed'[Len(audioFeed')].text = TextContent(ev'.context) ]_vars

SecondSessionAppended ==
    /\ IsAudio(prevEv) /\ prevEv.is_partial /\ prevEv.session_id = Str("s1")
    /\ IsAudio(ev) /\ ev.session_id = Str("s2")
    /\ Len(audioFeed) = 2
    /\ audioFeed[1].id = "s1" /\ audioFeed[1].text = prevEv.context
    /\ audioFeed[2].id = "s2" /\ audioFeed[2].text = ev.context

\* C11: scoreLabels and scoreData each hold at most CHART_HISTORY_SIZE
\* entries, the pair recorded onto a full series removes the oldest label
\* and the oldest score together, and after every handler the two sequences
\* have one length.
ScoreSeriesCapacity ==
    [][ /\ Len(scoreLabels') <= CHART_HISTORY_SIZE
        /\ Len(scoreData') <= CHART_HISTORY_SIZE
        /\ Len(scoreLabels') = Len(scoreData')
        /\ (ev'.kind = "event_scored" /\ Len(scoreData) = CHART_HISTORY_SIZE)
              => /\ scoreLabels' = Append(Tail(scoreLabels), "")
                 /\ Tail(scoreData) = SubSeq(scoreData', 1, CHART_HISTORY_SIZE - 1)
      ]_vars

\* the arrival numbers of the log lines of a panel, in document order
Lines(nodes) == [i \in 1..Len(Children(nodes)) |-> Children(nodes)[i].n]

\* the last MAX_LOG_LINES of the arrival numbers 1..n, in order
Latest(n) ==
    LET m == IF n > MAX_LOG_LINES THEN MAX_LOG_LINES ELSE n
    IN  [i \in 1..m |-> n - m + i]

\* C12: the chat log and the reply log each hold at most MAX_LOG_LINES
\* lines, the most recently appended ones in arrival order.
ChatLogsBounded ==
    /\ Len(Children(twitchMessages)) <= MAX_LOG_LINES
    /\ Len(Children(namiReplies)) <= MAX_LOG_LINES
    /\ Lines(twitchMessages) = Latest(nChat)
    /\ Lines(namiReplies) = Latest(nReply)

ChatLogsEvicted ==
    /\ nChat > MAX_LOG_LINES
    /\ nReply > MAX_LOG_LINES
    /\ Len(Children(twitchMessages)) = MAX_LOG_LINES
    /\ Lines(namiReplies)[1] = nReply - MAX_LOG_LINES + 1

\* C13: an event_scored event whose score lies outside [0, 1] is accepted
\* and the value appended to scoreData equals the incoming score (scoreData
\* holds hundredths, the score is in thousandths).
ScoreStoredAsReceived ==
    [][ ( /\ ev'.kind = "event_scored"
          /\ ev'.hasScore
          /\ (ev'.score < 0 \/ ev'.score > 1000) )
           => /\ Len(scoreData') > 0
              /\ 10 * scoreData'[Len(scoreData')] = ev'.score
      ]_vars

\* C14: updateAmbientLog with isUpdate on a non-empty array leaves the
\* length and every entry but the last as they were and writes the last;
\* the push path alone evicts, and what it evicts is the oldest entry.
ReplaceTouchesOnlyLast ==
    [][ ev'.kind = "updateAmbientLog" =>
          IF ev'.isUpdate /\ Len(logArray) > 0
          THEN /\ Len(logArray') = Len(logArray)
               /\ \A i \in 1..(Len(logArray) - 1) : logArray'[i] = logArray[i]
               /\ logArray'[Len(logArray)] = ev'.context
          ELSE \/ logArray' = Append(logArray, ev'.context)
               \/ /\ Len(logArray) = MAX_PANEL_LINES
                  /\ logArray' = Append(Tail(logArray), ev'.context)
      ]_vars

ReplacedOnFullLog ==
    /\ ev.kind = "updateAmbientLog"
    /\ ev.isUpdate
    /\ nCalls > MAX_PANEL_LINES + 1
    /\ Len(logArray) = MAX_PANEL_LINES
    /\ logArray[MAX_PANEL_LINES] = ev.context
    /\ logArray[1] # Text(1)

\* C15: fed the same event_scored events and chart initialisations, the two
\* front ends hold identical scoreLabels, scoreData and graphLog.
FrontEndsAgree ==
    /\ legacyLabels = scoreLabels
    /\ legacyData = scoreData
    /\ legacyGraphLog = graphLog

\* C17: once closeDebugDrawer has run and until openDebugDrawer is called
\* again, no drawer is open, currentDebugDrawer is null and no refresh is
\* running, whatever was pending when closeDebugDrawer ran.
ClosedStaysClosed ==
    closedSinceOpen =>
        /\ currentDebugDrawer = Null
        /\ ~drawerOpen
        /\ refreshing = {}

\* C18: when openDebugDrawer(A) and openDebugDrawer(B), A # B, overlapped
\* and both loads have completed, currentDebugDrawer is B, the content panel
\* holds B's fragment and no refresh but B's has been started.
LastOpenWins ==
    (race # <<>> /\ calls = <<>>) =>
        /\ currentDebugDrawer = race[2]
        /\ drawerContent = race[2]
        /\ refreshing \subseteq {race[2]}

\* C19: openDebugDrawer(name) while currentDebugDrawer equals name closes the
\* drawer (currentDebugDrawer null, classes removed, refreshes stopped) and
\* starts no fetch.
ToggleCloses ==
    [][ (ev'.kind = "openDebugDrawer" /\ currentDebugDrawer = ev'.drawerName) =>
           /\ currentDebugDrawer' = Null
           /\ ~drawerOpen'
           /\ refreshing' = {}
           /\ calls' = calls
           /\ drawerContent' = drawerContent
      ]_vars

ToggledAfterLoad ==
    /\ ev.kind = "openDebugDrawer"
    /\ ev.toggled
    /\ prevEv.kind = "loaded"
    /\ prevEv.drawerName = ev.drawerName
    /\ currentDebugDrawer = Null
    /\ ~drawerOpen
    /\ calls = <<>>

\* C20: whenever currentDebugDrawer is a drawer name D, the drawer is open
\* and the content panel holds D's fragment.
CurrentDrawerShown ==
    currentDebugDrawer # Null =>
        /\ drawerOpen
        /\ drawerContent = currentDebugDrawer

\* C21: while contextLocked, an ai_context_suggestion event leaves the
\* context input as it was and a suggestion with a context is stored in
\* pendingAiContext and shown in the indicator; while not locked, a
\* suggestion with a non-empty context is written to the context input and
\* pendingAiContext is left as it was.
LockDefersSuggestion ==
    [][ ev'.kind = "ai_context_suggestion" =>
          IF contextLocked
          THEN /\ contextInputValue' = contextInputValue
               /\ Truthy(ev'.context) =>
                     /\ pendingAiContext' = ev'.context
                     /\ suggestionText' = ev'.context
                     /\ indicatorShown'
          ELSE /\ pendingAiContext' = pendingAiContext
               /\ Truthy(ev'.context) => contextInputValue' = ev'.context
      ]_vars

SuggestionDeferred ==
    /\ ev.kind = "ai_context_suggestion"
    /\ contextLocked
    /\ Truthy(ev.context)
    /\ pendingAiContext = ev.context
    /\ indicatorShown
    /\ Truthy(contextInputValue)
    /\ contextInputValue # ev.context

\* C22: what a click on the accept button writes to the context input and
\* emits with set_manual_context is the context of the latest
\* ai_context_suggestion event.
AcceptAppliesLatest ==
    [][ (ev'.kind = "acceptAiSuggestion" /\ emitted' # emitted) =>
           /\ contextInputValue' = latestSuggestion
           /\ emitted'[Len(emitted')] = latestSuggestion
      ]_vars

\* C23: a click on the accept button with a pending suggestion emits one
\* set_manual_context message carrying it, clears pendingAiContext and hides
\* the indicator; a click with no pending suggestion emits nothing and
\* changes no state.
AcceptEmitsOnce ==
    [][ ev'.kind = "acceptAiSuggestion" =>
          IF pendingAiContext # NullValue
          THEN /\ emitted' = Append(emitted, pendingAiContext)
               /\ pendingAiContext' = NullValue
               /\ ~indicatorShown'
          ELSE UNCHANGED <<contextLocked, pendingAiContext, contextInputValue,
                           suggestionText, indicatorShown, emitted>>
      ]_vars

AcceptedThenClickedAgain ==
    /\ ev.kind = "acceptAiSuggestion"
    /\ prevEv.kind = "acceptAiSuggestion"
    /\ Len(emitted) = 1
    /\ Truthy(emitted[1])
    /\ contextInputValue = emitted[1]
    /\ pendingAiContext = NullValue
    /\ ~indicatorShown

====
